---- MODULE Spec2Model ----
(***************************************************************************)
(* Model of gpt_text_to_speech_downloader.py: the handler of the           *)
(* "Generate and Download MP3" button (lines 52-186).  One request is one  *)
(* run of that handler in one Streamlit session; sessions share the        *)
(* working directory of the server process.                                *)
(*                                                                         *)
(* Strings are sequences of chunks.  A chunk is either one special         *)
(* character (blank, quote, backslash, caret, slash) or a run of ordinary  *)
(* characters ("curl", "--output", ";", "clip", ".aac"), which replace,    *)
(* shlex and basename all treat as they treat a single ordinary character. *)
(*                                                                         *)
(* The `return` statements of lines 120, 127 and 130 are modelled as       *)
(* leaving the handler through its finally block (the handler read as a    *)
(* function body).                                                         *)
(***************************************************************************)
EXTENDS Integers, Sequences, FiniteSets, TLC

\* ------------------------------------------------------------------ bounds

\* Longest pasted command, in chunks.
MaxCmd == 3

\* Number of requests (sessions) sharing the working directory.
NReq == 2

Reqs == 1..NReq

\* ------------------------------------------------------- strings and paths

\* Python's None, and the empty string: both falsy (lines 54, 56, 173, 179).
None == << >>

Truthy(x) == x # << >>

\* Chunks a pasted command is drawn from.
Alphabet == {"curl", "--output", ";", " ", "\"", "\\", "^"}

RECURSIVE SeqsUpTo(_, _)
SeqsUpTo(S, n) ==
  IF n = 0 THEN {<< >>}
  ELSE LET shorter == SeqsUpTo(S, n - 1)
       IN  shorter \cup {Append(s, c) : s \in {t \in shorter : Len(t) = n - 1}, c \in S}

\* Values of the text area (line 38), the empty one included.
Commands == SeqsUpTo(Alphabet, MaxCmd)

\* Values of the filename field (line 45), the empty one included.
FileNames ==
  { << >>, <<"clip">>, <<"/">>, <<"clip", "/">>, <<"/", "clip">>,
    <<"dir", "/", "clip">> }

\* str.replace('^', '') (line 70): every caret is dropped.
RECURSIVE replace_caret(_)
replace_caret(s) ==
  IF s = << >> THEN << >>
  ELSE IF Head(s) = "^" THEN replace_caret(Tail(s))
       ELSE <<Head(s)>> \o replace_caret(Tail(s))

\* posixpath.basename (line 64): what follows the last slash.
RECURSIVE basename(_)
basename(p) ==
  IF p = << >> THEN << >>
  ELSE IF \E i \in 1..Len(p) : p[i] = "/" THEN basename(Tail(p))
       ELSE p

\* A faulty variant of safe_filename: the filename is used as typed.
safe_filename_raw(name) == name

\* safe_filename (line 64).
safe_filename(name) == basename(name)

\* aac_filename (line 65) and mp3_filename (line 66).
aac_filename_of(name) == safe_filename(name) \o <<".aac">>

mp3_filename_of(name) == safe_filename(name) \o <<".mp3">>

\* ------------------------------------------------------------------ shlex

whitespace == {" "}
quotes == {"\"", "'"}
escape == {"\\"}
escapedquotes == {"\""}

\* shlex.split(s) (line 73): shlex(s, posix=True) with whitespace_split set and
\* no commenters, read to the end.  state is shlex.state (" ", "a", a quote or
\* the escape character), token and quoted are read_token's locals and acc is
\* the list built so far.  The result is [ok, tokens] or [ok, error].
RECURSIVE lex(_, _, _, _, _, _, _)
lex(s, i, state, escapedstate, token, quoted, acc) ==
  LET eof == i > Len(s)
      c == IF eof THEN "" ELSE s[i]
      emit == IF token # << >> \/ quoted THEN Append(acc, token) ELSE acc
  IN
  IF state = " " THEN
    IF eof THEN [ok |-> TRUE, tokens |-> acc]
    ELSE IF c \in whitespace THEN lex(s, i + 1, " ", escapedstate, << >>, FALSE, acc)
    ELSE IF c \in escape THEN lex(s, i + 1, c, "a", token, quoted, acc)
    ELSE IF c \in quotes THEN lex(s, i + 1, c, escapedstate, token, quoted, acc)
    ELSE lex(s, i + 1, "a", escapedstate, <<c>>, quoted, acc)
  ELSE IF state \in quotes THEN
    IF eof THEN [ok |-> FALSE, error |-> "No closing quotation"]
    ELSE IF c = state THEN lex(s, i + 1, "a", escapedstate, token, TRUE, acc)
    ELSE IF c \in escape /\ state \in escapedquotes
      THEN lex(s, i + 1, c, state, token, TRUE, acc)
    ELSE lex(s, i + 1, state, escapedstate, Append(token, c), TRUE, acc)
  ELSE IF state \in escape THEN
    IF eof THEN [ok |-> FALSE, error |-> "No escaped character"]
    ELSE IF escapedstate \in quotes /\ c # state /\ c # escapedstate
      THEN lex(s, i + 1, escapedstate, escapedstate, token \o <<state, c>>, quoted, acc)
    ELSE lex(s, i + 1, escapedstate, escapedstate, Append(token, c), quoted, acc)
  ELSE \* state = "a"
    IF eof THEN [ok |-> TRUE, tokens |-> emit]
    ELSE IF c \in whitespace THEN lex(s, i + 1, " ", escapedstate, << >>, FALSE, emit)
    ELSE IF c \in quotes THEN lex(s, i + 1, c, escapedstate, token, quoted, acc)
    ELSE IF c \in escape THEN lex(s, i + 1, c, "a", token, quoted, acc)
    ELSE lex(s, i + 1, "a", escapedstate, Append(token, c), quoted, acc)

\* A faulty variant of shlex_split: an open quote or a trailing backslash ends the
\* token instead of raising.
RECURSIVE lex_lenient(_, _, _, _, _, _, _)
lex_lenient(s, i, state, escapedstate, token, quoted, acc) ==
  LET r == lex(s, i, state, escapedstate, token, quoted, acc)
  IN  IF r.ok THEN r
      ELSE IF Len(s) = 0 THEN [ok |-> TRUE, tokens |-> << >>]
      ELSE lex_lenient(SubSeq(s, 1, Len(s) - 1), i, state, escapedstate, token, quoted, acc)

shlex_split_lenient(s) == lex_lenient(s, 1, " ", " ", << >>, FALSE, << >>)

shlex_split(s) == lex(s, 1, " ", " ", << >>, FALSE, << >>)

\* ------------------------------------------------------- child processes

\* ' '.join(command_list) (line 77).
RECURSIVE join(_)
join(list) ==
  IF list = << >> THEN << >>
  ELSE IF Len(list) = 1 THEN list[1]
       ELSE list[1] \o <<" ">> \o join(Tail(list))

\* A faulty variant of subprocess_run: the joined command line is handed to a shell.
subprocess_run_shell(args) == [args |-> join(args), shell |-> TRUE]

\* The call of lines 85-90: the list is passed as it is, and shell is left at
\* its default, False.
subprocess_run(args) == [args |-> args, shell |-> FALSE]

\* What a shell makes of a command line: one command per ";"-separated part.
RECURSIVE sh_commands(_, _, _)
sh_commands(s, i, cur) ==
  IF i > Len(s) THEN <<shlex_split(cur)>>
  ELSE IF s[i] = ";" THEN <<shlex_split(cur)>> \o sh_commands(s, i + 1, << >>)
       ELSE sh_commands(s, i + 1, Append(cur, s[i]))

\* The argument vectors of the programs a subprocess.run call starts
\* (subprocess.Popen: execvp of the list, or /bin/sh -c of the string).
children(call) ==
  IF call.shell
    THEN LET cmds == sh_commands(call.args, 1, << >>)
         IN  [i \in 1..Len(cmds) |->
                [tool |-> "transfer",
                 argv |-> IF cmds[i].ok THEN cmds[i].tokens ELSE << >>]]
    ELSE <<[tool |-> "transfer", argv |-> call.args]>>

\* Exit statuses of the transfer tool that the handler tells apart: success,
\* curl's "URL malformed" and any other failure.
MalformedUrlCode == 3

RetCodes == {0, MalformedUrlCode, 22}

\* What the child can do before subprocess.run returns: exit with a status,
\* having written the --output file or not.
CurlResults ==
  [returncode : RetCodes, stdout : {"", "stdout of the child"},
   stderr : {"stderr of the child"}, wrote : BOOLEAN]

\* ------------------------------------------------------------------ state

VARIABLES
  pc,                  \* where each request's handler stands
  installed,           \* whether the program a request names is on the PATH
  curl_command_input,  \* the text area (line 38)
  file_name_input,     \* the filename field (line 45)
  command_list,        \* line 73, 75
  process,             \* the CompletedProcess of line 85, << >> before it
  aac_file,            \* line 60, 110
  mp3_file_path,       \* line 61, 148
  ui,                  \* the st.* calls made, in order
  procs,               \* the external programs started, in order
  fs,                  \* the working directory: files and who wrote them
  touched              \* whose files each request has read or deleted

vars ==
  << pc, installed, curl_command_input, file_name_input, command_list, process, aac_file,
     mp3_file_path, ui, procs, fs, touched >>

aac_filename(r) == aac_filename_of(file_name_input[r])

mp3_filename(r) == mp3_filename_of(file_name_input[r])

\* os.path.exists (lines 103, 173, 179).
exists(p) == \E f \in fs : f.path = p

\* The writers of the file at p (none when it is absent).
writers(p) == {f.creator : f \in {g \in fs : g.path = p}}

\* A program run for request r creates or overwrites p.
write_file(p, r) == {f \in fs : f.path # p} \cup {[path |-> p, creator |-> r]}

\* os.remove (lines 175, 183).
remove_file(p) == {f \in fs : f.path # p}

Msg(fn, line, arg) == [fn |-> fn, line |-> line, arg |-> arg]

show(r, msgs) == ui' = [ui EXCEPT ![r] = @ \o msgs]

goto(r, label) == pc' = [pc EXCEPT ![r] = label]

\* The state before the button is pressed: the requests in `ready` have their
\* form filled in, the others have no session.
InitWith(ready, cmds, names) ==
  /\ pc = [r \in Reqs |-> IF r \in ready THEN "form" ELSE "absent"]
  /\ \E c \in [ready -> cmds] :
       curl_command_input = [r \in Reqs |-> IF r \in ready THEN c[r] ELSE << >>]
  /\ \E n \in [ready -> names] :
       file_name_input = [r \in Reqs |-> IF r \in ready THEN n[r] ELSE << >>]
  /\ \E i \in [ready -> BOOLEAN] :
       installed = [r \in Reqs |-> IF r \in ready THEN i[r] ELSE FALSE]
  /\ command_list = [r \in Reqs |-> << >>]
  /\ process = [r \in Reqs |-> << >>]
  /\ aac_file = [r \in Reqs |-> None]
  /\ mp3_file_path = [r \in Reqs |-> None]
  /\ ui = [r \in Reqs |-> << >>]
  /\ procs = [r \in Reqs |-> << >>]
  /\ fs = {}
  /\ touched = [r \in Reqs |-> {}]

\* One request on its own, with every command and filename.
Init == InitWith({1}, Commands, FileNames)

\* ------------------------------------------------- the handler, step by step

\* Line 54: no command.  Nothing else of the handler runs.
ClickNoCommand(r) ==
  /\ pc[r] = "form"
  /\ ~Truthy(curl_command_input[r])
  /\ show(r, <<Msg("error", 55, "Please enter a cURL command to execute.")>>)
  /\ goto(r, "done")
  /\ UNCHANGED << installed, curl_command_input, file_name_input, command_list, process,
                  aac_file, mp3_file_path, procs, fs, touched >>

\* Line 56: no filename.
ClickNoFilename(r) ==
  /\ pc[r] = "form"
  /\ Truthy(curl_command_input[r])
  /\ ~Truthy(file_name_input[r])
  /\ show(r, <<Msg("error", 57, "Please provide a filename for the output.")>>)
  /\ goto(r, "done")
  /\ UNCHANGED << installed, curl_command_input, file_name_input, command_list, process,
                  aac_file, mp3_file_path, procs, fs, touched >>

\* Lines 54, 56: both inputs are given.
validated(r) == Truthy(curl_command_input[r]) /\ Truthy(file_name_input[r])

\* Lines 70, 73: the cleaned command, tokenized.
parsed(r) == shlex_split(replace_caret(curl_command_input[r]))

\* Line 75: the tokens with the output pair appended.
extended(r) == parsed(r).tokens \o << <<"--output">>, aac_filename(r) >>

\* Lines 60-73, 167-169: shlex.split raises ValueError, the outer handler
\* reports it and the finally block is next.
ClickParseError(r) ==
  /\ pc[r] = "form"
  /\ validated(r)
  /\ ~parsed(r).ok
  /\ show(r, <<Msg("error", 169, <<"ValueError", parsed(r).error>>)>>)
  /\ goto(r, "cleanup_aac")
  /\ UNCHANGED << installed, curl_command_input, file_name_input, command_list, process,
                  aac_file, mp3_file_path, procs, fs, touched >>

\* A faulty variant of ClickNotFound: the missing program is reported as an exit
\* status, as a shell reports it.
ClickNotFoundAsExit(r) ==
  /\ pc[r] = "form"
  /\ validated(r)
  /\ parsed(r).ok
  /\ ~installed[r]
  /\ command_list' = [command_list EXCEPT ![r] = extended(r)]
  /\ show(r, <<Msg("info", 77, join(extended(r)))>>)
  /\ process' = [process EXCEPT ![r] =
       <<[returncode |-> 22, stdout |-> "", stderr |-> "not found"]>>]
  /\ goto(r, "classify")
  /\ UNCHANGED << installed, curl_command_input, file_name_input, aac_file, mp3_file_path,
                  procs, fs, touched >>

\* Lines 60-90, 167-169: the program named by the first token is not on the
\* path; subprocess.run raises FileNotFoundError before any child exists.
ClickNotFound(r) ==
  /\ pc[r] = "form"
  /\ validated(r)
  /\ parsed(r).ok
  /\ ~installed[r]
  /\ command_list' = [command_list EXCEPT ![r] = extended(r)]
  /\ show(r, << Msg("info", 77, join(extended(r))),
                Msg("error", 169, <<"FileNotFoundError", extended(r)[1]>>) >>)
  /\ goto(r, "cleanup_aac")
  /\ UNCHANGED << installed, curl_command_input, file_name_input, process, aac_file,
                  mp3_file_path, procs, fs, touched >>

\* Lines 60-90: the child is started and the handler waits for it.
ClickSpawn(r) ==
  /\ pc[r] = "form"
  /\ validated(r)
  /\ parsed(r).ok
  /\ installed[r]
  /\ command_list' = [command_list EXCEPT ![r] = extended(r)]
  /\ show(r, <<Msg("info", 77, join(extended(r)))>>)
  /\ procs' = [procs EXCEPT ![r] = @ \o children(subprocess_run(extended(r)))]
  /\ goto(r, "run")
  /\ UNCHANGED << installed, curl_command_input, file_name_input, process, aac_file,
                  mp3_file_path, fs, touched >>

\* Lines 85-90: the child exits; subprocess.run returns its status and output
\* (check=False: no status raises).
CurlExit(r) ==
  /\ pc[r] = "run"
  /\ \E res \in CurlResults :
       /\ process' = [process EXCEPT ![r] =
            <<[returncode |-> res.returncode, stdout |-> res.stdout,
               stderr |-> res.stderr]>>]
       /\ fs' = IF res.wrote THEN write_file(aac_filename(r), r) ELSE fs
  /\ goto(r, "classify")
  /\ UNCHANGED << installed, curl_command_input, file_name_input, command_list, aac_file,
                  mp3_file_path, ui, procs, touched >>

\* A faulty variant of hint_shown: the hint comes with every failure.
hint_any_failure(returncode) == returncode # 0

\* Line 95.
hint_shown(returncode) == returncode = MalformedUrlCode

\* A faulty variant of classify: an exit status of 0 is taken for a download.
classify_no_exists_check(returncode, present) ==
  IF returncode # 0 THEN "failed" ELSE "present"

\* The branches of lines 93, 103 and 108.
classify(returncode, present) ==
  IF returncode # 0 THEN "failed"
  ELSE IF ~present THEN "missing"
  ELSE "present"

branch(r) == classify(process[r][1].returncode, exists(aac_filename(r)))

\* Python's `x or default` (lines 106, 107).
or_default(x, default) == IF x = "" THEN default ELSE x

\* Lines 93-101.
ClassifyFailed(r) ==
  /\ pc[r] = "classify"
  /\ branch(r) = "failed"
  /\ show(r, <<Msg("error", 94, process[r][1].returncode)>>
             \o (IF hint_shown(process[r][1].returncode)
                   THEN <<Msg("warning", 96, "Hint: The URL in your command appears to be malformed.")>>
                   ELSE << >>)
             \o <<Msg("code", 101, process[r][1].stderr)>>)
  /\ goto(r, "cleanup_aac")
  /\ UNCHANGED << installed, curl_command_input, file_name_input, command_list, process,
                  aac_file, mp3_file_path, procs, fs, touched >>

\* Lines 103-107.
ClassifyMissing(r) ==
  /\ pc[r] = "classify"
  /\ branch(r) = "missing"
  /\ show(r, << Msg("warning", 104, "Command executed, but the output file was not found."),
                Msg("info", 105, "Review the command's output below for details:"),
                Msg("code", 106, or_default(process[r][1].stdout, "No standard output.")),
                Msg("code", 107, or_default(process[r][1].stderr, "No standard error output.")) >>)
  /\ goto(r, "cleanup_aac")
  /\ UNCHANGED << installed, curl_command_input, file_name_input, command_list, process,
                  aac_file, mp3_file_path, procs, fs, touched >>

\* Lines 108-110: the file found at aac_filename is taken for the download.
ClassifyPresent(r) ==
  /\ pc[r] = "classify"
  /\ branch(r) = "present"
  /\ show(r, <<Msg("success", 109, aac_filename(r))>>)
  /\ aac_file' = [aac_file EXCEPT ![r] = aac_filename(r)]
  /\ touched' = [touched EXCEPT ![r] = @ \cup writers(aac_filename(r))]
  /\ goto(r, "probe")
  /\ UNCHANGED << installed, curl_command_input, file_name_input, command_list, process,
                  mp3_file_path, procs, fs >>

\* ffmpeg.probe starts ffprobe on the file (line 115).
run_ffprobe(r) ==
  /\ procs' = [procs EXCEPT ![r] =
       Append(@, [tool |-> "ffprobe", argv |-> <<aac_filename(r)>>])]
  /\ touched' = [touched EXCEPT ![r] = @ \cup writers(aac_filename(r))]

\* Lines 115, 116, 122: the probe reports streams.
ProbeAccepts(r) ==
  /\ pc[r] = "probe"
  /\ exists(aac_filename(r))
  /\ run_ffprobe(r)
  /\ show(r, <<Msg("info", 122, aac_filename(r))>>)
  /\ goto(r, "convert")
  /\ UNCHANGED << installed, curl_command_input, file_name_input, command_list, process,
                  aac_file, mp3_file_path, fs >>

\* A faulty variant of ProbeNoStreams: the return of line 120 is missing.
ProbeNoStreamsGoesOn(r) ==
  /\ pc[r] = "probe"
  /\ exists(aac_filename(r))
  /\ run_ffprobe(r)
  /\ show(r, << Msg("error", 117, aac_filename(r)),
                Msg("info", 118, "Please check your cURL command and the source of the audio.") >>)
  /\ goto(r, "convert")
  /\ UNCHANGED << installed, curl_command_input, file_name_input, command_list, process,
                  aac_file, mp3_file_path, fs >>

\* Lines 115-120: the probe reports no streams; the handler returns.
ProbeNoStreams(r) ==
  /\ pc[r] = "probe"
  /\ exists(aac_filename(r))
  /\ run_ffprobe(r)
  /\ show(r, << Msg("error", 117, aac_filename(r)),
                Msg("info", 118, "Please check your cURL command and the source of the audio.") >>)
  /\ goto(r, "cleanup_aac")
  /\ UNCHANGED << installed, curl_command_input, file_name_input, command_list, process,
                  aac_file, mp3_file_path, fs >>

\* Lines 115, 123-127: ffprobe exits non-zero (always so when the file is
\* gone); the handler returns.
ProbeError(r) ==
  /\ pc[r] = "probe"
  /\ run_ffprobe(r)
  /\ show(r, << Msg("error", 124, aac_filename(r)),
                Msg("code", 125, "stderr of ffprobe") >>)
  /\ goto(r, "cleanup_aac")
  /\ UNCHANGED << installed, curl_command_input, file_name_input, command_list, process,
                  aac_file, mp3_file_path, fs >>

\* Lines 115, 128-130: ffmpeg.probe raises something else (ffprobe is not
\* installed, its output is not JSON); the handler returns.
ProbeException(r) ==
  /\ pc[r] = "probe"
  /\ show(r, <<Msg("error", 129, "exception of ffmpeg.probe")>>)
  /\ goto(r, "cleanup_aac")
  /\ UNCHANGED << installed, curl_command_input, file_name_input, command_list, process,
                  aac_file, mp3_file_path, procs, fs, touched >>

\* ffmpeg.input(aac).output(mp3, audio_bitrate='192k').run(overwrite_output=True)
\* starts ffmpeg on the two paths (lines 140-145).
run_ffmpeg(r) ==
  /\ procs' = [procs EXCEPT ![r] =
       Append(@, [tool |-> "ffmpeg", argv |-> <<aac_filename(r), mp3_filename(r)>>])]
  /\ touched' = [touched EXCEPT ![r] = @ \cup writers(aac_filename(r))]

\* Lines 140-148: ffmpeg exits 0, having written the .mp3.
ConvertOk(r) ==
  /\ pc[r] = "convert"
  /\ exists(aac_filename(r))
  /\ run_ffmpeg(r)
  /\ fs' = write_file(mp3_filename(r), r)
  /\ show(r, <<Msg("success", 147, mp3_filename(r))>>)
  /\ mp3_file_path' = [mp3_file_path EXCEPT ![r] = mp3_filename(r)]
  /\ goto(r, "deliver")
  /\ UNCHANGED << installed, curl_command_input, file_name_input, command_list, process,
                  aac_file >>

\* A faulty variant of ConvertError: the failure is swallowed and the handler goes on
\* to the download.
ConvertErrorSwallowed(r) ==
  /\ pc[r] = "convert"
  /\ run_ffmpeg(r)
  /\ fs' = write_file(mp3_filename(r), r)
  /\ goto(r, "deliver")
  /\ UNCHANGED << installed, curl_command_input, file_name_input, command_list, process,
                  aac_file, mp3_file_path, ui >>

\* Lines 140-145, 159-162: ffmpeg exits non-zero (always so when the input is
\* gone), with or without a partial .mp3 left behind.
ConvertError(r) ==
  /\ pc[r] = "convert"
  /\ run_ffmpeg(r)
  /\ \E partial \in BOOLEAN :
       fs' = IF partial THEN write_file(mp3_filename(r), r) ELSE fs
  /\ show(r, << Msg("error", 161, "FFmpeg conversion failed."),
                Msg("code", 162, "stderr of ffmpeg") >>)
  /\ goto(r, "cleanup_aac")
  /\ UNCHANGED << installed, curl_command_input, file_name_input, command_list, process,
                  aac_file, mp3_file_path >>

\* Lines 140-145, 163-165: the run raises something else (ffmpeg is not
\* installed); no child, no file.
ConvertException(r) ==
  /\ pc[r] = "convert"
  /\ show(r, <<Msg("error", 165, "exception of ffmpeg.run")>>)
  /\ goto(r, "cleanup_aac")
  /\ UNCHANGED << installed, curl_command_input, file_name_input, command_list, process,
                  aac_file, mp3_file_path, procs, fs, touched >>

\* Lines 151-157, 163-165: the .mp3 is opened and offered for download; when
\* it is gone, open raises FileNotFoundError and line 165 reports it.
Deliver(r) ==
  /\ pc[r] = "deliver"
  /\ IF exists(mp3_filename(r))
       THEN show(r, <<Msg("download_button", 152, mp3_filename(r))>>)
       ELSE show(r, <<Msg("error", 165, "FileNotFoundError")>>)
  /\ touched' = [touched EXCEPT ![r] = @ \cup writers(mp3_filename(r))]
  /\ goto(r, "cleanup_aac")
  /\ UNCHANGED << installed, curl_command_input, file_name_input, command_list, process,
                  aac_file, mp3_file_path, procs, fs >>

\* Line 173 (and 179): the path is registered and the file is there.
to_remove(path) == Truthy(path) /\ exists(path)

\* Lines 173-176: the .aac is removed.
CleanupAac(r) ==
  /\ pc[r] = "cleanup_aac"
  /\ to_remove(aac_file[r])
  /\ fs' = remove_file(aac_file[r])
  /\ touched' = [touched EXCEPT ![r] = @ \cup writers(aac_file[r])]
  /\ show(r, <<Msg("info", 176, aac_file[r])>>)
  /\ goto(r, "cleanup_mp3")
  /\ UNCHANGED << installed, curl_command_input, file_name_input, command_list, process,
                  aac_file, mp3_file_path, procs >>

\* Lines 173-178: os.remove raises OSError; a warning, and the file stays.
CleanupAacFails(r) ==
  /\ pc[r] = "cleanup_aac"
  /\ to_remove(aac_file[r])
  /\ show(r, <<Msg("warning", 178, aac_file[r])>>)
  /\ goto(r, "cleanup_mp3")
  /\ UNCHANGED << installed, curl_command_input, file_name_input, command_list, process,
                  aac_file, mp3_file_path, procs, fs, touched >>

\* Line 173: nothing registered, or nothing there.
CleanupAacSkip(r) ==
  /\ pc[r] = "cleanup_aac"
  /\ ~to_remove(aac_file[r])
  /\ goto(r, "cleanup_mp3")
  /\ UNCHANGED << installed, curl_command_input, file_name_input, command_list, process,
                  aac_file, mp3_file_path, ui, procs, fs, touched >>

\* Lines 179-184: the .mp3 is removed.
CleanupMp3(r) ==
  /\ pc[r] = "cleanup_mp3"
  /\ to_remove(mp3_file_path[r])
  /\ fs' = remove_file(mp3_file_path[r])
  /\ touched' = [touched EXCEPT ![r] = @ \cup writers(mp3_file_path[r])]
  /\ show(r, <<Msg("info", 184, mp3_file_path[r])>>)
  /\ goto(r, "done")
  /\ UNCHANGED << installed, curl_command_input, file_name_input, command_list, process,
                  aac_file, mp3_file_path, procs >>

\* Lines 179-186: os.remove raises OSError.
CleanupMp3Fails(r) ==
  /\ pc[r] = "cleanup_mp3"
  /\ to_remove(mp3_file_path[r])
  /\ show(r, <<Msg("warning", 186, mp3_file_path[r])>>)
  /\ goto(r, "done")
  /\ UNCHANGED << installed, curl_command_input, file_name_input, command_list, process,
                  aac_file, mp3_file_path, procs, fs, touched >>

\* Line 179: nothing registered, or nothing there.
CleanupMp3Skip(r) ==
  /\ pc[r] = "cleanup_mp3"
  /\ ~to_remove(mp3_file_path[r])
  /\ goto(r, "done")
  /\ UNCHANGED << installed, curl_command_input, file_name_input, command_list, process,
                  aac_file, mp3_file_path, ui, procs, fs, touched >>

Next ==
  \E r \in Reqs :
    \/ ClickNoCommand(r)
    \/ ClickNoFilename(r)
    \/ ClickParseError(r)
    \/ ClickNotFound(r)
    \/ ClickSpawn(r)
    \/ CurlExit(r)
    \/ ClassifyFailed(r)
    \/ ClassifyMissing(r)
    \/ ClassifyPresent(r)
    \/ ProbeAccepts(r)
    \/ ProbeNoStreams(r)
    \/ ProbeError(r)
    \/ ProbeException(r)
    \/ ConvertOk(r)
    \/ ConvertError(r)
    \/ ConvertException(r)
    \/ Deliver(r)
    \/ CleanupAac(r)
    \/ CleanupAacFails(r)
    \/ CleanupAacSkip(r)
    \/ CleanupMp3(r)
    \/ CleanupMp3Fails(r)
    \/ CleanupMp3Skip(r)

Spec == Init /\ [][Next]_vars

\* Requests of several sessions, interleaved at every step, over a few
\* commands and filenames.
ConcCommands == {<< >>, <<"\"">>, <<"curl">>}

ConcFileNames == {<< >>, <<"clip">>, <<"song">>}

InitConc == InitWith(Reqs, ConcCommands, ConcFileNames)

ConcSpec == InitConc /\ [][Next]_vars

\* ------------------------------------------------------------ what is seen

\* The st.* call of the given source line has been made for request r.
said(r, line) == \E i \in 1..Len(ui[r]) : ui[r][i].line = line

\* The argument of that call.
arg_of(r, line) ==
  LET i == CHOOSE j \in 1..Len(ui[r]) : ui[r][j].line = line IN ui[r][i].arg

\* Request r has started a program with this tool.
ran(r, tool) == \E i \in 1..Len(procs[r]) : procs[r][i].tool = tool

\* The transfer programs started for request r.
transfers(r) == SelectSeq(procs[r], LAMBDA p : p.tool = "transfer")

\* The outcomes reported to the caller of request r, by the report that
\* delivers each: line 94 CommandFailed, 104 ArtifactMissing, 117, 124 and 129
\* InvalidArtifact, 161 and 165 TranscodeFailed, 152 Success (the download
\* offered), 169 the unexpected-error report, 55 and 57 ValidationError.
Outcomes(r) ==
  {o \in { "ValidationError", "Error", "CommandFailed", "ArtifactMissing",
           "InvalidArtifact", "TranscodeFailed", "Success" } :
     \/ o = "ValidationError" /\ (said(r, 55) \/ said(r, 57))
     \/ o = "Error" /\ said(r, 169)
     \/ o = "CommandFailed" /\ said(r, 94)
     \/ o = "ArtifactMissing" /\ said(r, 104)
     \/ o = "InvalidArtifact" /\ (said(r, 117) \/ said(r, 124) \/ said(r, 129))
     \/ o = "TranscodeFailed" /\ (said(r, 161) \/ said(r, 165))
     \/ o = "Success" /\ said(r, 152)}

\* The handler of request r is past the classification of lines 93-110.
classified(r) ==
  /\ process[r] # << >>
  /\ pc[r] \in {"probe", "convert", "deliver", "cleanup_aac", "cleanup_mp3", "done"}

\* The handler of request r has delivered its outcome and only cleans up.
delivered(r) == pc[r] \in {"cleanup_aac", "cleanup_mp3", "done"}

\* No os.remove of request r has failed.
deletions_succeeded(r) == ~said(r, 178) /\ ~said(r, 186)

\* ----------------------------------------------------------------- claims

\* C1 (as claimed): once a validated request has ended, and no deletion
\* failed, no file written for that request by the transfer child (.aac) or
\* by the transcoder (.mp3) is left in the working directory.
C1_NoFileOutlivesRequest ==
  \A r \in Reqs :
    (pc[r] = "done" /\ validated(r) /\ deletions_succeeded(r))
      => ~\E f \in fs : f.creator = r

\* C2: the transfer child is started at most once per request, with exactly
\* the sanitizer's token list as its argument vector; a token holding ";"
\* is one argument of it, and no second program is started.
C2_ArgvIsTokenList ==
  \A r \in Reqs :
    /\ Len(transfers(r)) <= 1
    /\ \A i \in 1..Len(transfers(r)) :
         /\ transfers(r)[i].argv = command_list[r]
         /\ Len(command_list[r]) >= 2
         /\ \A k \in 1..Len(command_list[r]) :
              (\E j \in 1..Len(command_list[r][k]) : command_list[r][k][j] = ";")
                => transfers(r)[i].argv[k] = command_list[r][k]

\* C2 witness: a child was started whose vector holds a token with ";".
C2_Witness ==
  \E r \in Reqs :
    /\ Len(transfers(r)) = 1
    /\ \E k \in 1..Len(transfers(r)[1].argv) :
         \E j \in 1..Len(transfers(r)[1].argv[k]) : transfers(r)[1].argv[k][j] = ";"

\* C3: when the child returned 0 and the .aac is absent as the handler
\* classifies, the handler reports ArtifactMissing with the child's stdout
\* and stderr and goes to cleanup; after that report there is no other
\* outcome, no probe, no transcoder and no download.
C3_MissingArtifact ==
  /\ [][\A r \in Reqs :
          ( /\ pc[r] = "classify"
            /\ pc'[r] # "classify"
            /\ process[r][1].returncode = 0
            /\ ~exists(aac_filename(r)) )
          => ( /\ said(r, 104)'
               /\ arg_of(r, 106)' = or_default(process[r][1].stdout, "No standard output.")
               /\ arg_of(r, 107)' = or_default(process[r][1].stderr, "No standard error output.")
               /\ pc'[r] = "cleanup_aac" )]_vars
  /\ [](\A r \in Reqs :
          said(r, 104)
            => /\ Outcomes(r) = {"ArtifactMissing"}
               /\ process[r][1].returncode = 0
               /\ ~ran(r, "ffprobe") /\ ~ran(r, "ffmpeg")
               /\ ~said(r, 152)
               /\ delivered(r))

\* C3 witness: a request ended with ArtifactMissing.
C3_Witness ==
  \E r \in Reqs :
    /\ pc[r] = "done"
    /\ said(r, 104)
    /\ process[r][1].returncode = 0
    /\ ~exists(aac_filename(r))

\* C4: once classified, a status of 3 gives CommandFailed with the status,
\* the child's stderr and the malformed-URL hint, whether the output file
\* exists or not; any other non-zero status gives CommandFailed without the
\* hint; a status of 0 never shows the hint.
C4_MalformedUrlHint ==
  \A r \in Reqs :
    classified(r) =>
      LET rc == process[r][1].returncode
      IN  /\ rc # 0 => /\ Outcomes(r) = {"CommandFailed"}
                       /\ arg_of(r, 94) = rc
                       /\ arg_of(r, 101) = process[r][1].stderr
          /\ rc = 3 => said(r, 96)
          /\ rc # 3 => ~said(r, 96)
          /\ rc = 0 => ~said(r, 94)

\* C4 witness: a request ended with status 3, the hint shown and the output
\* file left behind by the child.
C4_Witness ==
  \E r \in Reqs :
    /\ pc[r] = "done"
    /\ process[r] # << >>
    /\ process[r][1].returncode = 3
    /\ said(r, 96)
    /\ exists(aac_filename(r))

\* A command with an open quote: no backslash, no single quote, and an odd
\* number of double quotes once the carets are gone.
RECURSIVE count(_, _)
count(s, c) ==
  IF s = << >> THEN 0
  ELSE (IF Head(s) = c THEN 1 ELSE 0) + count(Tail(s), c)

unterminated_quote(s) ==
  /\ count(s, "\\") = 0
  /\ count(s, "'") = 0
  /\ count(replace_caret(s), "\"") % 2 = 1

\* C5: a validated request whose cleaned command has an open quote, or does
\* not tokenize for another reason, ends in the error report alone, carrying
\* the ValueError: no program is started, no file is written or deleted,
\* nothing else is shown, and the handler goes on to its end.
C5_ParseErrorBeforeLaunch ==
  \A r \in Reqs :
    ( /\ validated(r)
      /\ pc[r] # "form"
      /\ unterminated_quote(curl_command_input[r]) \/ ~parsed(r).ok )
    => /\ Len(ui[r]) = 1
       /\ ui[r][1].fn = "error" /\ ui[r][1].line = 169
       /\ ui[r][1].arg[1] = "ValueError"
       /\ Outcomes(r) = {"Error"}
       /\ procs[r] = << >>
       /\ process[r] = << >>
       /\ command_list[r] = << >>
       /\ ~\E f \in fs : f.creator = r
       /\ touched[r] = {}
       /\ delivered(r)

\* C5 witness: a request with an open quote has ended.
C5_Witness ==
  \E r \in Reqs :
    /\ pc[r] = "done"
    /\ validated(r)
    /\ unterminated_quote(curl_command_input[r])
    /\ said(r, 169)

\* A validated request whose command tokenized and whose program is not on
\* the PATH has pressed the button.
program_not_found(r) ==
  /\ validated(r)
  /\ pc[r] # "form"
  /\ parsed(r).ok
  /\ ~installed[r]

\* Some report of request r advises to install the program and check the path.
install_advice(r) ==
  \E i \in 1..Len(ui[r]) :
    ui[r][i].fn \in {"error", "warning", "info"} /\ ui[r][i].arg = "install and check PATH"

C7_OutputPairAppended ==
  \A r \in Reqs :
    \A i \in 1..Len(transfers(r)) :
      LET argv == transfers(r)[i].argv
          toks == shlex_split(replace_caret(curl_command_input[r])).tokens
          n == Len(argv)
      IN  /\ n = Len(toks) + 2
          /\ SubSeq(argv, 1, n - 2) = toks
          /\ argv[n - 1] = <<"--output">>
          /\ argv[n] = basename(file_name_input[r]) \o <<".aac">>
          /\ \A j \in 1..Len(argv[n]) : argv[n][j] # "/"
          /\ \A k \in 1..n : \A j \in 1..Len(argv[k]) : argv[k][j] # "^"

\* C7 witness: a child was started for a command with its own --output and a
\* filename with a directory part.
C7_Witness ==
  \E r \in Reqs :
    /\ Len(transfers(r)) = 1
    /\ Len(transfers(r)[1].argv) = 4
    /\ transfers(r)[1].argv[2] = <<"--output">>
    /\ transfers(r)[1].argv[3] = <<"--output">>
    /\ file_name_input[r] = <<"dir", "/", "clip">>

probe_rejected(r) == said(r, 117) \/ said(r, 124) \/ said(r, 129)

C10_ExclusiveOwnership ==
  \A r \in Reqs : touched[r] \subseteq {r}

====
